---- MODULE Spec2Model ----
(***************************************************************************)
(* Model of podaac.swodlr_common: the retrying per-job processor, the      *)
(* batch entry points (the lambda_handler injected by the decorators and   *)
(* JobHandler.invoke) and the handler registration of decorators.py.       *)
(*                                                                         *)
(* Python values are tagged records: PyNone, PyStr(s), PyInt(n).  A job    *)
(* record (a dict) is a TLA+ record whose DOMAIN is the dict's key set.    *)
(***************************************************************************)
EXTENDS Integers, Sequences, FiniteSets, TLC

\* ------------------------------------------------------------------ bounds
\* configured retry parameters range over the strings "0" .. MaxParam
MaxParam == 2
\* transport envelopes per event (JobHandler.invoke)
MaxRecords == 2
\* jobs per direct-invocation event (lambda_handler)
MaxJobs == 2
\* modules that declare handlers, and registrations attempted per process
MaxModules == 2
MaxRegistrations == 3
MaxUtilityCalls == 6
MaxVer == 1
MaxHits == 2

\* ---------------------------------------------------------- python values
PyNone == [type |-> "NoneType"]
PyStr(s) == [type |-> "str", val |-> s]
PyInt(n) == [type |-> "int", val |-> n]

Digits == <<"0", "1", "2", "3", "4", "5", "6", "7", "8", "9">>

\* int(s) for a one-digit decimal string
int(v) == PyInt((CHOOSE d \in 1..Len(Digits) : Digits[d] = v.val) - 1)

ParamValues == {PyNone} \cup {PyStr(Digits[n + 1]) : n \in 0..MaxParam}

\* ------------------------------------------------------------ job records
J1 == [product_id |-> "p1", job_id |-> "j1", job_status |-> "job-queued"]
J2 == [product_id |-> "p2", job_id |-> "j2", job_status |-> "job-queued",
       errors |-> <<"e1", "e2">>]
InputJobs == {J1, J2}

RECURSIVE SeqsUpTo(_, _)
SeqsUpTo(S, n) ==
    IF n = 0 THEN {<<>>}
    ELSE LET shorter == SeqsUpTo(S, n - 1)
         IN shorter \cup {Append(s, x) : s \in {t \in shorter : Len(t) = n - 1}, x \in S}

\* ------------------------------------------------------- jobset validation
\* the compiled 'jobset' schema: an object with a "jobs" array of job records
ValidJob(job) == {"product_id", "job_id", "job_status"} \subseteq DOMAIN job
ValidJobset(v) ==
    /\ "jobs" \in DOMAIN v
    /\ \A n \in 1..Len(v.jobs) : ValidJob(v.jobs[n])

\* direct invocation: the raw event is the jobset, or something that is not one
DirectEvents ==
    {[jobs |-> s] : s \in SeqsUpTo(InputJobs, MaxJobs)} \cup {[job |-> <<>>]}

\* envelope bodies: serialized text.  [json |-> v] is the serialization of v;
\* [text |-> ...] is text that is not JSON
Bodies ==
    {[json |-> [jobs |-> <<job>>]] : job \in InputJobs}
        \cup {[json |-> [job |-> <<>>]], [text |-> "not json"]}
Parsable(body) == "json" \in DOMAIN body
json_loads(body) == body.json

EnvelopeEvents ==
    {[Records |-> [n \in 1..Len(s) |-> [body |-> s[n]]]] : s \in SeqsUpTo(Bodies, MaxRecords)}

\* ------------------------------------------------------------- exceptions
NoException == [type |-> "None"]
Unset == [type |-> "unset"]
OutsideException == [type |-> "OutsideError"]
HandlerException(job, attempt) ==
    [type |-> "HandlerError", job |-> job, attempt |-> attempt]

\* traceback.format_exception(type, value, tb) joined with newlines
format_exception(exc) == <<"Traceback (most recent call last):", exc>>
\* traceback.format_exc(): the exception being handled, or the text Python
\* prints when no exception is being handled
format_exc(exc) ==
    IF exc = NoException THEN <<"NoneType: None">> ELSE format_exception(exc)

\* attributes of a dict object (its methods); keys are not attributes
DictAttributes ==
    {"clear", "copy", "fromkeys", "get", "items", "keys", "pop", "popitem",
     "setdefault", "update", "values"}
hasattr(obj, name) == name \in DictAttributes

VARIABLES
    kind,            \* "decorator": lambda_handler of job_handler; "class": JobHandler
    params,          \* the parameter store read by get_param
    sys_last,        \* sys.last_type / last_value / last_traceback
    exc_info,        \* the exception being handled when the entry point is called
    event,           \* the event handed to the entry point
    pc,              \* position of the entry point
    rec_idx,         \* envelopes of event['Records'] already decoded
    input_jobs,
    output_jobs,
    job_idx,         \* position in input_jobs of the job being processed
    attempt,         \* i of the loop over [i**2 for i in range(0, max_attempts + 1)]
    input_job_copy,  \* the deep copy handed to the handler
    mutated,         \* the handler has written to its argument in this attempt
    dirty,           \* a failed attempt of the current job wrote to its argument
    calls,           \* handler invocations for the current job
    waits,           \* sleep() durations completed for the current job
    last_exc,        \* what the handler raised last for the current job
    handler_ret,     \* what the handler returned for the current job
    result,          \* what the processor returned for the current job
    outcome,         \* what the entry point gave its caller
    utils_instance,  \* BaseUtilities._instance: 0 while the class has no such attribute
    ssm_loaded,      \* the bound instance has its _ssm_parameters
    session,         \* its _session: 0 while it has no such attribute
    mozart_es_client,\* its _mozart_es_client: 0 while it has no such attribute
    util_log,        \* the calls made to BaseUtilities so far, with how each ended
    loaded_modules,  \* decorators.loaded_modules
    lambda_handler,  \* per module, its lambda_handler attribute
    reg_log,         \* the decorator calls made so far, with how each ended
    hits,            \* job-version of each hit of the job_specs search
    latest,          \* what get_latest_job_version gave its caller
    compared         \* two parsed versions and what each comparison returned

vars == <<kind, params, sys_last, exc_info, event, pc, rec_idx, input_jobs,
          output_jobs, job_idx, attempt, input_job_copy, mutated, dirty, calls,
          waits, last_exc, handler_ret, result, outcome, utils_instance,
          ssm_loaded, session, mozart_es_client, util_log,
          loaded_modules, lambda_handler, reg_log,
          hits, latest, compared>>

versions == <<hits, latest, compared>>
utilities == <<utils_instance, ssm_loaded, session, mozart_es_client, util_log>>
registry == <<utilities, loaded_modules, lambda_handler, reg_log>>
env == <<kind, params, sys_last, exc_info, event, registry, versions>>

Modules == 1..MaxModules

NoOutcome == [type |-> "running"]
Returned(v) == [type |-> "return", value |-> v]
Raised(name) == [type |-> "raise", exc |-> name]
NoRecord == [none |-> TRUE]

get_param(name) == params[name]

\* the parameter stores considered: at most one of the two retry parameters set
ParamStores ==
    {store \in [{"max_attempts", "max_tries"} -> ParamValues] :
        store["max_attempts"] = PyNone \/ store["max_tries"] = PyNone}

DefaultMaxAttempts == 3

\* decorators.py: max_attempts of _generate_bulk_job_handler
DecoratorMaxAttempts ==
    IF get_param("max_attempts") # PyNone
    THEN int(get_param("max_attempts")) ELSE PyInt(DefaultMaxAttempts)

\* job_handler.py: self._max_attempts of JobHandler.__init__
ClassMaxAttempts ==
    IF get_param("max_tries") # PyNone
    THEN get_param("max_tries") ELSE PyInt(DefaultMaxAttempts)

max_attempts == IF kind = "decorator" THEN DecoratorMaxAttempts ELSE ClassMaxAttempts

\* the lambda_handler _generate_lambda_handler builds: which declaration's
\* handler it wraps, whether that handler takes the whole list of jobs, and
\* returns_jobset
EntryPoint(declaration, bulk, returns_jobset) ==
    [handler |-> declaration, bulk |-> bulk, returns_jobset |-> returns_jobset]
\* one call to BaseUtilities: what was called, how the call ended
UtilCall(op, ended) == [op |-> op, ended |-> ended]
\* one decorator call: the handler's module, the decorator, how the call ended
Registration(module, decorator, error) ==
    [module |-> module, decorator |-> decorator, error |-> error]

Init ==
    /\ kind \in {"decorator", "class"}
    /\ params \in ParamStores
    /\ sys_last \in IF kind = "decorator" THEN {Unset, OutsideException} ELSE {Unset}
    /\ exc_info \in IF kind = "class" THEN {NoException, OutsideException}
                                      ELSE {NoException}
    /\ event \in IF kind = "decorator" THEN DirectEvents ELSE EnvelopeEvents
    /\ pc = "start"
    /\ rec_idx = 0
    /\ input_jobs = <<>>
    /\ output_jobs = <<>>
    /\ job_idx = 1
    /\ attempt = 0
    /\ input_job_copy = NoRecord
    /\ mutated = FALSE
    /\ dirty = FALSE
    /\ calls = 0
    /\ waits = <<>>
    /\ last_exc = NoException
    /\ handler_ret = NoRecord
    /\ result = NoRecord
    /\ outcome = NoOutcome
    /\ utils_instance = 1
    /\ ssm_loaded = TRUE
    /\ session = 0
    /\ mozart_es_client = 0
    /\ util_log = <<UtilCall("__init__", Returned(1))>>
    /\ loaded_modules = IF kind = "decorator" THEN {1} ELSE {}
    /\ lambda_handler =
          [m \in Modules |-> IF kind = "decorator" /\ m = 1
                             THEN EntryPoint(1, FALSE, FALSE) ELSE NoRecord]
    /\ reg_log = IF kind = "decorator" THEN <<Registration(1, "job_handler", "none")>>
                                       ELSE <<>>
    /\ hits = <<>>
    /\ latest = NoOutcome
    /\ compared = NoRecord

job_state == <<attempt, input_job_copy, mutated, dirty, calls, waits, last_exc,
              handler_ret, result>>

\* lambda_handler, ingress: validate_jobset(event), then input_jobset['jobs']
LambdaIngress ==
    /\ kind = "decorator"
    /\ pc = "start"
    /\ IF ValidJobset(event)
       THEN /\ input_jobs' = event.jobs
            /\ pc' = "dispatch"
            /\ outcome' = outcome
       ELSE \* the JsonSchemaException is logged; input_jobset was never bound
            /\ input_jobs' = input_jobs
            /\ pc' = "exit"
            /\ outcome' = Raised("UnboundLocalError")
    /\ UNCHANGED <<env, rec_idx, output_jobs, job_idx, job_state>>

\* JobHandler.invoke, one iteration of the loop over event['Records']
InvokeRecord ==
    /\ kind = "class"
    /\ pc = "start"
    /\ rec_idx < Len(event.Records)
    /\ LET body == event.Records[rec_idx + 1].body
       IN IF ~Parsable(body)
          THEN \* json.JSONDecodeError is not a JsonSchemaException
               /\ pc' = "exit"
               /\ outcome' = Raised("JSONDecodeError")
               /\ UNCHANGED <<rec_idx, input_jobs>>
          ELSE /\ rec_idx' = rec_idx + 1
               /\ input_jobs' = IF ValidJobset(json_loads(body))
                                THEN input_jobs \o json_loads(body).jobs
                                ELSE input_jobs
               /\ UNCHANGED <<pc, outcome>>
    /\ UNCHANGED <<env, output_jobs, job_idx, job_state>>

\* JobHandler.invoke: the loop over the records is over, handle_jobs is called
InvokeHandleJobs ==
    /\ kind = "class"
    /\ pc = "start"
    /\ rec_idx = Len(event.Records)
    /\ pc' = "dispatch"
    /\ UNCHANGED <<env, rec_idx, input_jobs, output_jobs, job_idx, job_state, outcome>>

\* Durations with a seeded fault: range(0, max_attempts), and 2**i for i**2
Durations_OneShort(n) == [k \in 1..n |-> (k - 1) * (k - 1)]
Durations_Exponential(n) == [k \in 1..(n + 1) |-> 2 ^ (k - 1)]

\* Durations with a seeded fault: the duration of attempt i is (i - 1)**2
Durations_Lagged(n) ==
    [k \in 1..(n + 1) |-> IF k = 1 THEN 0 ELSE (k - 2) * (k - 2)]

\* the list [i**2 for i in range(0, max_attempts + 1)]
Durations(n) == [k \in 1..(n + 1) |-> (k - 1) * (k - 1)]

\* HandlerArg with a seeded fault: the handler is called with the input job itself
HandlerArg_Input == "input_job"

\* the object the handler is called with: the deep copy, not the input job
HandlerArg == "input_job_copy"
ArgObject == IF HandlerArg = "input_job_copy" THEN input_job_copy
                                            ELSE input_jobs[job_idx]

deepcopy(obj) == obj

\* what a handler may give back for the record it was called with
Completed(job) == [job EXCEPT !.job_status = "job-complete"]
Renamed(job) == [job EXCEPT !.product_id = "other"]
Stripped(job) == [product_id |-> job.product_id]
HandlerResults(job) == {Completed(job), Renamed(job), Stripped(job)}

\* dict item assignment: obj[key] = value
SetItem(obj, key, value) ==
    [k \in DOMAIN obj \cup {key} |-> IF k = key THEN value ELSE obj[k]]

\* FailedJob with a seeded fault: a new record instead of the marked copy of the input
FailedJob_Fresh(output_job, exception) ==
    [job_status |-> "job-failed", traceback |-> exception,
     errors |-> <<"SDS pipeline failed">>]

\* the record of the exhaustion path, from the copy of the input and the
\* traceback text
FailedJob(output_job, exception) ==
    LET initialised == IF ~hasattr(output_job, "errors")
                       THEN SetItem(output_job, "errors", <<>>)
                       ELSE output_job
        marked == SetItem(SetItem(initialised, "job_status", "job-failed"),
                          "traceback", exception)
    IN [marked EXCEPT !.errors = Append(@, "SDS pipeline failed")]

\* AttemptResult with a seeded fault: the copy of the input instead of the handler's record
AttemptResult_Input(returned) == deepcopy(input_jobs[job_idx])

\* `return handler(...)`: the processor's result for a returning attempt
AttemptResult(returned) == returned

\* default_bulk_job_handler / handle_jobs: the next element of the list
\* comprehension enters try_handler / _try_handle_job, which builds the list
\* of durations
StartJob ==
    /\ pc = "dispatch"
    /\ job_idx <= Len(input_jobs)
    /\ IF max_attempts.type = "int"
       THEN /\ pc' = "loop"
            /\ outcome' = outcome
       ELSE \* str + int
            /\ pc' = "exit"
            /\ outcome' = Raised("TypeError")
    /\ attempt' = 0
    /\ calls' = 0
    /\ waits' = <<>>
    /\ last_exc' = NoException
    /\ handler_ret' = NoRecord
    /\ result' = NoRecord
    /\ dirty' = FALSE
    /\ UNCHANGED <<env, rec_idx, input_jobs, output_jobs, job_idx,
                   input_job_copy, mutated>>

\* the for statement takes the next duration; sleep() is entered when it is > 0
Backoff ==
    /\ pc = "loop"
    /\ pc' = IF attempt + 1 > Len(Durations(max_attempts.val)) THEN "exhausted"
             ELSE IF Durations(max_attempts.val)[attempt + 1] > 0 THEN "sleeping"
             ELSE "try"
    /\ UNCHANGED <<env, rec_idx, input_jobs, output_jobs, job_idx, job_state,
                   outcome>>

\* sleep(duration) returns
Wake ==
    /\ pc = "sleeping"
    /\ waits' = Append(waits, Durations(max_attempts.val)[attempt + 1])
    /\ pc' = "try"
    /\ UNCHANGED <<env, rec_idx, input_jobs, output_jobs, job_idx, attempt,
                   input_job_copy, mutated, dirty, calls, last_exc, handler_ret,
                   result, outcome>>

\* the try block: the input job is copied and the handler is called
CallHandler ==
    /\ pc = "try"
    /\ input_job_copy' = deepcopy(input_jobs[job_idx])
    /\ mutated' = FALSE
    /\ calls' = calls + 1
    /\ pc' = "handler"
    /\ UNCHANGED <<env, rec_idx, input_jobs, output_jobs, job_idx, attempt,
                   dirty, waits, last_exc, handler_ret, result, outcome>>

\* the handler writes to the record it was called with
HandlerMutate ==
    /\ pc = "handler"
    /\ ~mutated
    /\ mutated' = TRUE
    /\ LET written == [ArgObject EXCEPT !.job_status = "job-running"]
       IN IF HandlerArg = "input_job_copy"
          THEN /\ input_job_copy' = written
               /\ input_jobs' = input_jobs
          ELSE /\ input_jobs' = [input_jobs EXCEPT ![job_idx] = written]
               /\ input_job_copy' = input_job_copy
    /\ UNCHANGED <<env, pc, rec_idx, output_jobs, job_idx, attempt, dirty,
                   calls, waits, last_exc, handler_ret, result, outcome>>

\* the handler returns; the processor returns what it returned
HandlerReturn ==
    /\ pc = "handler"
    /\ \E returned \in HandlerResults(ArgObject) :
          /\ handler_ret' = returned
          /\ result' = AttemptResult(returned)
          /\ output_jobs' = Append(output_jobs, AttemptResult(returned))
    /\ job_idx' = job_idx + 1
    /\ input_job_copy' = NoRecord
    /\ mutated' = FALSE
    /\ pc' = "dispatch"
    /\ UNCHANGED <<env, rec_idx, input_jobs, attempt, dirty, calls, waits,
                   last_exc, outcome>>

\* HandlerRaise with a seeded fault: a failed attempt gives the job up and
\* lets the dispatcher go on to the next job without a result
HandlerRaise_Skip ==
    /\ pc = "handler"
    /\ last_exc' = HandlerException(job_idx, attempt)
    /\ job_idx' = job_idx + 1
    /\ input_job_copy' = NoRecord
    /\ mutated' = FALSE
    /\ dirty' = (dirty \/ mutated)
    /\ pc' = "dispatch"
    /\ UNCHANGED <<env, rec_idx, input_jobs, output_jobs, attempt, calls,
                   waits, handler_ret, result, outcome>>

\* the handler raises an Exception; it is caught and logged
HandlerRaise ==
    /\ pc = "handler"
    /\ last_exc' = HandlerException(job_idx, attempt)
    /\ attempt' = attempt + 1
    /\ input_job_copy' = NoRecord
    /\ mutated' = FALSE
    /\ dirty' = (dirty \/ mutated)
    /\ pc' = "loop"
    /\ UNCHANGED <<env, rec_idx, input_jobs, output_jobs, job_idx, calls,
                   waits, handler_ret, result, outcome>>

\* decorators.py: the text put in 'traceback', from sys.last_*
DecoratorTraceback == format_exception(sys_last)
\* job_handler.py: the text put in 'traceback', traceback.format_exc() after
\* the except block has been left
ClassTraceback == format_exc(exc_info)

\* the loop ended without a return: handle_job surpassed allowed max attempts
Exhaust ==
    /\ pc = "exhausted"
    /\ IF kind = "decorator" /\ sys_last = Unset
       THEN \* module 'sys' has no attribute 'last_type'
            /\ pc' = "exit"
            /\ outcome' = Raised("AttributeError")
            /\ UNCHANGED <<output_jobs, job_idx, result>>
       ELSE LET output_job ==
                    FailedJob(deepcopy(input_jobs[job_idx]),
                              IF kind = "decorator" THEN DecoratorTraceback
                                                    ELSE ClassTraceback)
            IN /\ result' = output_job
               /\ output_jobs' = Append(output_jobs, output_job)
               /\ job_idx' = job_idx + 1
               /\ pc' = "dispatch"
               /\ outcome' = outcome
    /\ UNCHANGED <<env, rec_idx, input_jobs, attempt, input_job_copy, mutated,
                   dirty, calls, waits, last_exc, handler_ret>>

\* the output jobset is validated and returned, or None is
Egress ==
    /\ pc = "dispatch"
    /\ job_idx > Len(input_jobs)
    /\ pc' = "exit"
    /\ outcome' = IF ValidJobset([jobs |-> output_jobs])
                  THEN Returned([jobs |-> output_jobs])
                  ELSE Returned(PyNone)
    /\ UNCHANGED <<env, rec_idx, input_jobs, output_jobs, job_idx, job_state>>

Next ==
    \/ LambdaIngress
    \/ InvokeRecord
    \/ InvokeHandleJobs
    \/ StartJob
    \/ Backoff
    \/ Wake
    \/ CallHandler
    \/ HandlerMutate
    \/ HandlerReturn
    \/ HandlerRaise
    \/ Exhaust
    \/ Egress

Spec == Init /\ [][Next]_vars

\* --------------------------------------------------------------- registration
invocation == <<kind, params, sys_last, exc_info, event, pc, rec_idx,
                input_jobs, output_jobs, job_idx, job_state, outcome, versions>>

InitReg ==
    /\ kind = "decorator"
    /\ params \in {[max_attempts |-> PyNone, max_tries |-> PyNone, sds_host |-> h] :
                      h \in {PyNone, PyStr("https://sds/")}}
    /\ sys_last = Unset
    /\ exc_info = NoException
    /\ event = [jobs |-> <<>>]
    /\ pc = "start"
    /\ rec_idx = 0
    /\ input_jobs = <<>>
    /\ output_jobs = <<>>
    /\ job_idx = 1
    /\ attempt = 0
    /\ input_job_copy = NoRecord
    /\ mutated = FALSE
    /\ dirty = FALSE
    /\ calls = 0
    /\ waits = <<>>
    /\ last_exc = NoException
    /\ handler_ret = NoRecord
    /\ result = NoRecord
    /\ outcome = NoOutcome
    /\ utils_instance = 0
    /\ ssm_loaded = FALSE
    /\ session = 0
    /\ mozart_es_client = 0
    /\ util_log = <<>>
    /\ loaded_modules = {}
    /\ lambda_handler = [m \in Modules |-> NoRecord]
    /\ reg_log = <<>>
    /\ hits = <<>>
    /\ latest = NoOutcome
    /\ compared = NoRecord

\* the objects BaseUtilities.__init__ has been called on so far
Constructions == {i \in 1..Len(util_log) : util_log[i].op = "__init__"}

\* ConstructUtilities with a seeded fault: no check for an instance already bound
ConstructUtilities_Rebind ==
    /\ Len(util_log) < MaxUtilityCalls
    /\ utils_instance' = Cardinality(Constructions) + 1
    /\ ssm_loaded' = TRUE
    /\ util_log' = Append(util_log, UtilCall("__init__", Returned(utils_instance')))
    /\ UNCHANGED <<invocation, session, mozart_es_client,
                   loaded_modules, lambda_handler, reg_log>>

\* BaseUtilities.__init__ (through a subclass) on a new object: refused when an
\* instance is bound; else the object is bound, then its parameters are
\* loaded, which the parameter service may fail
ConstructUtilities ==
    /\ Len(util_log) < MaxUtilityCalls
    /\ IF utils_instance # 0
       THEN /\ util_log' = Append(util_log, UtilCall("__init__", Raised("RuntimeError")))
            /\ UNCHANGED <<utils_instance, ssm_loaded>>
       ELSE /\ utils_instance' = Cardinality(Constructions) + 1
            /\ \/ /\ ssm_loaded' = TRUE
                  /\ util_log' = Append(util_log,
                                     UtilCall("__init__", Returned(utils_instance')))
               \/ /\ ssm_loaded' = FALSE
                  /\ util_log' = Append(util_log,
                                     UtilCall("__init__", Raised("ClientError")))
    /\ UNCHANGED <<invocation, session, mozart_es_client,
                   loaded_modules, lambda_handler, reg_log>>

\* Declared with a seeded fault: the module is never found in loaded_modules
Declared_Never(module) == FALSE

\* `module not in loaded_modules` fails
Declared(module) == module \in loaded_modules

\* the body shared by job_handler and bulk_job_handler's inner: the module is
\* recorded, then the entry point is built (BaseUtilities.get_instance() is its
\* first step) and injected into the module
Declare(module, decorator, bulk, returns_jobset) ==
    IF Declared(module)
    THEN /\ reg_log' = Append(reg_log, Registration(module, decorator,
                                    "RuntimeError: Multiple job handlers"))
         /\ UNCHANGED <<loaded_modules, lambda_handler>>
    ELSE /\ loaded_modules' = loaded_modules \cup {module}
         /\ IF utils_instance = 0
            THEN /\ reg_log' = Append(reg_log, Registration(module, decorator,
                                    "RuntimeError: Utilities were not initialized yet"))
                 /\ lambda_handler' = lambda_handler
            ELSE IF ~ssm_loaded
            THEN /\ reg_log' = Append(reg_log, Registration(module, decorator,
                                    "AttributeError: _ssm_parameters"))
                 /\ lambda_handler' = lambda_handler
            ELSE /\ reg_log' = Append(reg_log, Registration(module, decorator, "none"))
                 /\ lambda_handler' =
                       [lambda_handler EXCEPT ![module] =
                           EntryPoint(Len(reg_log) + 1, bulk, returns_jobset)]

\* @job_handler on a handler of `module`
JobHandlerDecorator ==
    /\ Len(reg_log) < MaxRegistrations
    /\ \E module \in Modules : Declare(module, "job_handler", FALSE, FALSE)
    /\ UNCHANGED <<invocation, utilities>>

\* @bulk_job_handler, @bulk_job_handler(flag) or
\* @bulk_job_handler(returns_jobset=flag) on a handler of `module`
BulkJobHandlerDecorator ==
    /\ Len(reg_log) < MaxRegistrations
    /\ \E module \in Modules, returns_jobset \in BOOLEAN :
          Declare(module, "bulk_job_handler", TRUE, returns_jobset)
    /\ UNCHANGED <<invocation, utilities>>

\* bulk_job_handler called with anything else: no handler is declared
BulkJobHandlerInvalidArgs ==
    /\ Len(reg_log) < MaxRegistrations
    /\ reg_log' = Append(reg_log, Registration(0, "bulk_job_handler",
                              "RuntimeError: Invalid args provided"))
    /\ UNCHANGED <<invocation, utilities, loaded_modules, lambda_handler>>

NextReg ==
    \/ ConstructUtilities
    \/ JobHandlerDecorator
    \/ BulkJobHandlerDecorator
    \/ BulkJobHandlerInvalidArgs

SpecReg == InitReg /\ [][NextReg]_vars

\* ------------------------------------------------------------------ utilities
\* BaseUtilities.get_instance()
GetInstance ==
    /\ Len(util_log) < MaxUtilityCalls
    /\ util_log' = Append(util_log, UtilCall("get_instance",
                       IF utils_instance = 0 THEN Raised("RuntimeError")
                                             ELSE Returned(utils_instance)))
    /\ UNCHANGED <<invocation, utils_instance, ssm_loaded, session,
                   mozart_es_client, loaded_modules, lambda_handler, reg_log>>

\* _get_sds_session of the bound instance: the session is made from the
\* parameters on the first request that gets that far
GetSdsSession ==
    /\ Len(util_log) < MaxUtilityCalls
    /\ utils_instance # 0
    /\ IF session # 0
       THEN /\ util_log' = Append(util_log, UtilCall("_get_sds_session", Returned(session)))
            /\ session' = session
       ELSE IF ~ssm_loaded
       THEN /\ util_log' = Append(util_log,
                              UtilCall("_get_sds_session", Raised("AttributeError")))
            /\ session' = session
       ELSE /\ session' = Len(util_log) + 1
            /\ util_log' = Append(util_log, UtilCall("_get_sds_session", Returned(session')))
    /\ UNCHANGED <<invocation, utils_instance, ssm_loaded, mozart_es_client,
                   loaded_modules, lambda_handler, reg_log>>

\* get_mozart_es_client of the bound instance: urlparse and path.join of
\* sds_host, then the Elasticsearch constructor, which may refuse its arguments
get_mozart_es_client ==
    IF mozart_es_client # 0
    THEN /\ util_log' = Append(util_log,
                           UtilCall("get_mozart_es_client", Returned(mozart_es_client)))
         /\ mozart_es_client' = mozart_es_client
    ELSE IF ~ssm_loaded
    THEN /\ util_log' = Append(util_log,
                           UtilCall("get_mozart_es_client", Raised("AttributeError")))
         /\ mozart_es_client' = mozart_es_client
    ELSE IF get_param("sds_host") = PyNone
    THEN /\ util_log' = Append(util_log,
                           UtilCall("get_mozart_es_client", Raised("TypeError")))
         /\ mozart_es_client' = mozart_es_client
    ELSE \/ /\ mozart_es_client' = Len(util_log) + 1
            /\ util_log' = Append(util_log,
                           UtilCall("get_mozart_es_client", Returned(mozart_es_client')))
         \/ /\ util_log' = Append(util_log,
                           UtilCall("get_mozart_es_client", Raised("ValueError")))
            /\ mozart_es_client' = mozart_es_client

\* a request for the client
GetMozartEsClient ==
    /\ Len(util_log) < MaxUtilityCalls
    /\ utils_instance # 0
    /\ get_mozart_es_client
    /\ UNCHANGED <<invocation, utils_instance, ssm_loaded, session,
                   loaded_modules, lambda_handler, reg_log>>

NextUtil ==
    \/ ConstructUtilities
    \/ GetInstance
    \/ GetSdsSession
    \/ GetMozartEsClient

SpecUtil == InitReg /\ [][NextUtil]_vars

\* ------------------------------------------------------------------- versions
IsDigit(c) == \E n \in 1..10 : Digits[n] = c
DigitValue(c) == (CHOOSE n \in 1..10 : Digits[n] = c) - 1

\* the length of the longest run of digits of str that starts at i: \d+
RECURSIVE DigitRun(_, _)
DigitRun(str, i) ==
    IF i <= Len(str) /\ IsDigit(str[i]) THEN 1 + DigitRun(str, i + 1) ELSE 0

\* int() of the n characters of str from i
RECURSIVE ToInt(_, _, _)
ToInt(str, i, n) ==
    IF n = 0 THEN 0 ELSE ToInt(str, i, n - 1) * 10 + DigitValue(str[i + n - 1])

\* _SemVer.__init__
SemVer(major, minor, patch) == [major |-> major, minor |-> minor, patch |-> patch]

\* VERSION_RE matched at position i of str
MatchAt(str, i) ==
    LET a == DigitRun(str, i)
        dot1 == i + a
        b == DigitRun(str, dot1 + 1)
        dot2 == dot1 + 1 + b
        c == DigitRun(str, dot2 + 1)
    IN  IF /\ a > 0
           /\ dot1 <= Len(str) /\ str[dot1] = "."
           /\ b > 0
           /\ dot2 <= Len(str) /\ str[dot2] = "."
           /\ c > 0
        THEN SemVer(ToInt(str, i, a), ToInt(str, dot1 + 1, b), ToInt(str, dot2 + 1, c))
        ELSE PyNone

\* _SemVer.attempt_parse: VERSION_RE.search takes the leftmost match
attempt_parse(semver_str) ==
    LET starts == {i \in 1..Len(semver_str) : MatchAt(semver_str, i) # PyNone}
    IN  IF starts = {} THEN PyNone
        ELSE MatchAt(semver_str, CHOOSE i \in starts : \A k \in starts : i <= k)

\* _SemVer.__eq__, __lt__, __gt__, __le__, __ge__ on two _SemVer objects
eq(self, other) ==
    self.major = other.major /\ self.minor = other.minor /\ self.patch = other.patch
lt(self, other) ==
    self.major < other.major \/ self.minor < other.minor \/ self.patch < other.patch
gt(self, other) ==
    self.major > other.major \/ self.minor > other.minor \/ self.patch > other.patch
le(self, other) == lt(self, other) \/ eq(self, other)
ge(self, other) == gt(self, other) \/ eq(self, other)

\* the job-version strings considered: every a.b.c with components up to
\* MaxVer, and v0.0.1, dev, 1.0, 10.0.1
Dotted(a, b, c) == <<Digits[a + 1], ".", Digits[b + 1], ".", Digits[c + 1]>>
VersionStrings ==
    {Dotted(a, b, c) : a \in 0..MaxVer, b \in 0..MaxVer, c \in 0..MaxVer}
    \cup {<<"v">> \o Dotted(0, 0, 1), <<"d", "e", "v">>, <<"1", ".", "0">>,
          <<"1">> \o Dotted(0, 0, 1)}

\* a process whose utilities are constructed, with the content of the
\* job_specs index and the release tag parameter
InitVer ==
    /\ kind = "decorator"
    /\ params \in {[max_attempts |-> PyNone, max_tries |-> PyNone,
                    sds_host |-> PyStr("https://sds/"), sds_pcm_release_tag |-> tag] :
                      tag \in {PyNone, PyStr("1.0.0")}}
    /\ hits \in SeqsUpTo(VersionStrings, MaxHits)
    /\ get_param("sds_pcm_release_tag") # PyNone => hits = <<>>
    /\ sys_last = Unset
    /\ exc_info = NoException
    /\ event = [jobs |-> <<>>]
    /\ pc = "start"
    /\ rec_idx = 0
    /\ input_jobs = <<>>
    /\ output_jobs = <<>>
    /\ job_idx = 1
    /\ attempt = 0
    /\ input_job_copy = NoRecord
    /\ mutated = FALSE
    /\ dirty = FALSE
    /\ calls = 0
    /\ waits = <<>>
    /\ last_exc = NoException
    /\ handler_ret = NoRecord
    /\ result = NoRecord
    /\ outcome = NoOutcome
    /\ utils_instance = 1
    /\ ssm_loaded = TRUE
    /\ session = 0
    /\ mozart_es_client = 0
    /\ util_log = <<UtilCall("__init__", Returned(1))>>
    /\ loaded_modules = {}
    /\ lambda_handler = [m \in Modules |-> NoRecord]
    /\ reg_log = <<>>
    /\ latest = NoOutcome
    /\ compared = NoRecord

\* get_latest_job_version from its loop at hit i on: a hit that does not parse
\* is skipped; `version not in job_versions` hashes the _SemVer, which defines
\* __eq__ and no __hash__; after the last hit job_versions is still empty and
\* sorted(...)[0] has nothing to index
RECURSIVE PickLatest(_)
PickLatest(i) ==
    IF i > Len(hits) THEN Raised("IndexError")
    ELSE IF attempt_parse(hits[i]) = PyNone THEN PickLatest(i + 1)
    ELSE Raised("TypeError")

\* get_latest_job_version(job_name)
GetLatestJobVersion ==
    /\ latest = NoOutcome
    /\ IF get_param("sds_pcm_release_tag") # PyNone
       THEN /\ latest' = Returned(get_param("sds_pcm_release_tag"))
            /\ UNCHANGED <<mozart_es_client, util_log>>
       ELSE /\ get_mozart_es_client
            /\ latest' =
                  IF util_log'[Len(util_log')].ended.type = "raise"
                  THEN util_log'[Len(util_log')].ended
                  ELSE IF Len(hits) = 0 THEN Raised("RuntimeError")
                  ELSE PickLatest(1)
    /\ UNCHANGED <<kind, params, sys_last, exc_info, event, pc, rec_idx, input_jobs,
                   output_jobs, job_idx, job_state, outcome, utils_instance,
                   ssm_loaded, session, loaded_modules, lambda_handler, reg_log,
                   hits, compared>>

\* the comparisons of two versions parsed from the index
CompareVersions ==
    /\ latest # NoOutcome
    /\ compared = NoRecord
    /\ \E i \in 1..Len(hits), k \in 1..Len(hits) :
          LET a == attempt_parse(hits[i])
              b == attempt_parse(hits[k])
          IN  /\ i <= k
              /\ a # PyNone
              /\ b # PyNone
              /\ compared' = [a |-> a, b |-> b,
                              lt |-> lt(a, b), eq |-> eq(a, b), gt |-> gt(a, b),
                              le |-> le(a, b), ge |-> ge(a, b)]
    /\ UNCHANGED <<kind, params, sys_last, exc_info, event, pc, rec_idx, input_jobs,
                   output_jobs, job_idx, job_state, outcome, registry, hits, latest>>

NextVer ==
    \/ GetLatestJobVersion
    \/ CompareVersions

SpecVer == InitVer /\ [][NextVer]_vars

\* ===================================================================== claims
\* the processor has returned a record for the job before job_idx
Finished == result # NoRecord
InputJob == input_jobs[job_idx - 1]
\* every attempt of the current job has failed
AllFailed ==
    \/ pc = "exhausted"
    \/ result # NoRecord /\ handler_ret = NoRecord
    \/ outcome = Raised("AttributeError")
\* the processor returned on the exhaustion path
ExhaustedReturn == Finished /\ handler_ret = NoRecord
GenericFailure == "SDS pipeline failed"
Squares(k) == [j \in 1..k |-> j * j]

\* C1 (as stated): whatever the handler does, the record the processor returns
\* has the product_id of the input record
C1_AnyHandlerPreservesId ==
    Finished =>
        /\ "product_id" \in DOMAIN result
        /\ result.product_id = InputJob.product_id

\* C1 (amended): the record the processor returns has the product_id of the
\* input record on the exhaustion path, and on a returning attempt whenever the
\* record the handler returned has it
C1_IdentityPreserved ==
    Finished =>
        ((handler_ret = NoRecord \/ handler_ret.product_id = InputJob.product_id)
            => /\ "product_id" \in DOMAIN result
               /\ result.product_id = InputJob.product_id)

C1_Witness ==
    /\ ExhaustedReturn
    /\ job_idx = 3
    /\ output_jobs[1] = Completed(input_jobs[1])
    /\ result.product_id = "p2"

\* C2: with max_attempts = n the handler is called at most n + 1 times for one
\* job, exactly n + 1 times when every call fails, and never again for a job
\* once an attempt has returned
C2_CallsBounded ==
    max_attempts.type = "int" =>
        /\ calls <= max_attempts.val + 1
        /\ AllFailed => calls = max_attempts.val + 1
C2_NoCallAfterReturn == calls' > calls => handler_ret = NoRecord
C2_AttemptCounting == []C2_CallsBounded /\ [][C2_NoCallAfterReturn]_vars

C2_Witness ==
    /\ AllFailed
    /\ max_attempts.val = 2
    /\ calls = 3
    /\ job_idx = 2
    /\ output_jobs[1] = Completed(input_jobs[1])

C4_EarlySuccess ==
    (Finished /\ handler_ret # NoRecord) =>
        /\ result = handler_ret
        /\ output_jobs[job_idx - 1] = handler_ret
        /\ calls = attempt + 1
        /\ waits = Squares(attempt)

C4_Witness ==
    /\ Finished
    /\ handler_ret = Completed(InputJob)
    /\ max_attempts.val = 2
    /\ attempt = 2
    /\ calls = 3
    /\ waits = <<1, 4>>

\* C5: when every attempt has failed, the processor returns a record copied
\* from the input with job_status failed, a non-empty traceback, the generic
\* message in errors, and the input's product_id and job_id
C5_ExhaustionMarking ==
    (AllFailed /\ pc # "exhausted") =>
        /\ Finished
        /\ result.job_status = "job-failed"
        /\ Len(result.traceback) > 0
        /\ \E n \in 1..Len(result.errors) : result.errors[n] = GenericFailure
        /\ result.product_id = InputJob.product_id
        /\ result.job_id = InputJob.job_id

\* C6: on the exhaustion path the errors of the returned record are the
\* errors of the input record, in order, followed by the generic message
InputErrors == IF "errors" \in DOMAIN InputJob THEN InputJob.errors ELSE <<>>
C6_ErrorsAppendOnly ==
    ExhaustedReturn => result.errors = Append(InputErrors, GenericFailure)

\* C7: on the exhaustion path the traceback of the returned record is the
\* diagnostic text of the failure the last attempt raised
C7_LastFailureTraceback ==
    ExhaustedReturn =>
        /\ last_exc = HandlerException(job_idx - 1, max_attempts.val)
        /\ result.traceback = format_exception(last_exc)

\* C8: once the handler has raised for a job, no exception leaves the entry
\* point, and a jobset the caller receives holds the exhausted job as a failed
\* record
C8_FailuresNeverEscape ==
    /\ last_exc # NoException => outcome.type # "raise"
    /\ (pc = "exit" /\ AllFailed) =>
          /\ outcome.type = "return"
          /\ outcome.value # PyNone =>
                outcome.value.jobs[job_idx - 1].job_status = "job-failed"

\* C9: in envelope mode a malformed envelope never aborts the invocation, and
\* the jobs handed to processing are those of the well-formed envelopes, in
\* envelope order
RECURSIVE WellFormedJobs(_)
WellFormedJobs(records) ==
    IF records = <<>> THEN <<>>
    ELSE LET body == records[Len(records)].body
             earlier == WellFormedJobs(SubSeq(records, 1, Len(records) - 1))
         IN IF Parsable(body) /\ ValidJobset(body.json)
            THEN earlier \o body.json.jobs ELSE earlier
C9_EnvelopeResilience ==
    kind = "class" =>
        /\ outcome # Raised("JSONDecodeError")
        /\ pc \notin {"start", "exit"} => input_jobs = WellFormedJobs(event.Records)

\* the declarations that ended normally, all of them or those of one module
Succeeded == {n \in 1..Len(reg_log) : reg_log[n].error = "none"}
SucceededIn(module) == {n \in Succeeded : reg_log[n].module = module}

C11_EgressHardStop ==
    pc = "exit" =>
        /\ outcome.type = "return"
        /\ outcome.value = PyNone <=> ~ValidJobset([jobs |-> output_jobs])
        /\ outcome.value # PyNone => outcome.value = [jobs |-> output_jobs]

\* the job records the caller handed in, as the entry point extracted them
OriginalJobs == IF kind = "decorator" THEN event.jobs
                                     ELSE WellFormedJobs(event.Records)
InProcessing == pc \in {"dispatch", "loop", "sleeping", "try", "handler", "exhausted"}

\* C12: whatever failed attempts wrote to their argument, (a) a fresh call
\* receives a record equal to the original input, (b) the record of the
\* exhaustion path is built from the original input, and (c) the input records
\* stay as the caller handed them in
C12_AttemptIsolation ==
    /\ (InProcessing \/ Finished) => input_jobs = OriginalJobs
    /\ (pc = "handler" /\ ~mutated) => ArgObject = OriginalJobs[job_idx]
    /\ ExhaustedReturn =>
          \E text \in {DecoratorTraceback, ClassTraceback} :
              result = FailedJob(OriginalJobs[job_idx - 1], text)

C12_Witness ==
    /\ ExhaustedReturn
    /\ dirty
    /\ result.product_id = "p2"
    /\ input_jobs[job_idx - 1] = J2

C12_WitnessRetry ==
    /\ pc = "handler"
    /\ ~mutated
    /\ dirty
    /\ attempt = 2

\* the entry point got past ingress and called the per-record dispatcher
Dispatched ==
    /\ pc # "start"
    /\ outcome \notin {Raised("UnboundLocalError"), Raised("JSONDecodeError")}

\* C13: the per-record dispatcher returns, for k input records, a list of k
\* records whose position j holds the processor's result for input j
C13_BatchShape ==
    /\ Finished =>
          /\ Len(output_jobs) = job_idx - 1
          /\ output_jobs[job_idx - 1] = result
    /\ (pc = "exit" /\ Dispatched) =>
          /\ outcome.type = "return"
          /\ Len(output_jobs) = Len(input_jobs)

\* C14 (as stated): with a handler that always fails, the waits before
\* attempts 1..n are 0, 1, 4, ..., (n-1)^2; a wait of 0 seconds is one the
\* code does not perform
LaggedSquares(k) == [j \in 1..(k - 1) |-> j * j]
C14_LaggedWaits ==
    (AllFailed /\ max_attempts.val >= 1) => waits = LaggedSquares(max_attempts.val)

\* C14 (amended): with max_attempts = n and a handler that always fails, the
\* waits performed before attempts 1..n are 1, 4, ..., n^2
C14_WaitSequence == AllFailed => waits = Squares(max_attempts.val)

C14_Witness ==
    /\ AllFailed
    /\ max_attempts.val = 3
    /\ calls = 4
    /\ waits = <<1, 4, 9>>

\* C15: in direct invocation mode an event that fails jobset validation is
\* logged and no exception leaves the entry point, which still ends by
\* returning a jobset or None
C15_IngressFailureContained ==
    (kind = "decorator" /\ ~ValidJobset(event)) =>
        /\ outcome.type # "raise"
        /\ pc = "exit" => outcome.type = "return"

\* C16: while an attempt or a backoff wait of the job at position job_idx is
\* under way, every earlier job has its final result and no later job has
\* started; the entry point returns only after the last job has its result
C16_Sequential ==
    /\ pc \in {"loop", "sleeping", "try", "handler", "exhausted"} =>
          /\ job_idx \in 1..Len(input_jobs)
          /\ Len(output_jobs) = job_idx - 1
    /\ outcome.type = "return" => Len(output_jobs) = Len(input_jobs)

C16_Witness ==
    /\ pc = "sleeping"
    /\ job_idx = 2
    /\ Len(output_jobs) = 1
    /\ "traceback" \in DOMAIN output_jobs[1]
    /\ output_jobs[1].job_status = "job-failed"

\* C17: both processors make at most n + 1 handler calls per job when the
\* max_attempts parameter is n, and at most 4 when it is not supplied
ConfiguredCalls ==
    IF get_param("max_attempts") # PyNone
    THEN int(get_param("max_attempts")).val + 1
    ELSE DefaultMaxAttempts + 1
C17_ConfiguredRetryBound == calls <= ConfiguredCalls

\* the calls of `op` in util_log that returned a value
ReturnedCalls(op) ==
    {i \in 1..Len(util_log) : util_log[i].op = op /\ util_log[i].ended.type = "return"}
\* every call of `op` that returned gave the object `bound`, which was made by
\* the first of them
CreatedOnce(op, bound) ==
    IF ReturnedCalls(op) = {}
    THEN bound = 0
    ELSE /\ bound \in ReturnedCalls(op)
         /\ \A i \in ReturnedCalls(op) : bound <= i /\ util_log[i].ended.value = bound

\* C18: get_instance fails before the first construction and afterwards
\* returns the first-constructed instance; every later construction fails with
\* a RuntimeError and leaves the bound instance unchanged; _session and
\* _mozart_es_client are each created at most once and returned unchanged
C18_InitializedOnce ==
    /\ utils_instance = IF Constructions = {} THEN 0 ELSE 1
    /\ \A i \in 1..Len(util_log) :
          /\ util_log[i].op = "get_instance" =>
                util_log[i].ended =
                    IF \E c \in Constructions : c < i THEN Returned(1)
                                                      ELSE Raised("RuntimeError")
          /\ (i \in Constructions /\ \E c \in Constructions : c < i) =>
                util_log[i].ended = Raised("RuntimeError")
    /\ CreatedOnce("_get_sds_session", session)
    /\ CreatedOnce("get_mozart_es_client", mozart_es_client)
C18_Witness ==
    /\ Len(util_log) = 6
    /\ util_log[1] = UtilCall("get_instance", Raised("RuntimeError"))
    /\ util_log[2] = UtilCall("__init__", Returned(1))
    /\ util_log[3] = UtilCall("__init__", Raised("RuntimeError"))
    /\ util_log[4] = UtilCall("get_instance", Returned(1))
    /\ util_log[5] = UtilCall("_get_sds_session", Returned(5))
    /\ util_log[6] = UtilCall("_get_sds_session", Returned(5))
    /\ session = 5
\* the client is created on a later request after a refused one, then kept
C18_WitnessClient ==
    /\ Len(util_log) = 4
    /\ util_log[2] = UtilCall("get_mozart_es_client", Raised("ValueError"))
    /\ util_log[3] = UtilCall("get_mozart_es_client", Returned(3))
    /\ util_log[4] = UtilCall("get_mozart_es_client", Returned(3))

\* C19: a module is recorded in loaded_modules exactly when an entry point
\* has been injected into it, so a registration whose wiring fails leaves the
\* module unrecorded
C19_RegistryInStep ==
    \A module \in Modules :
        module \in loaded_modules <=> lambda_handler[module] # NoRecord

\* (major, minor, patch) of a before that of b in the lexicographic order
LexLess(a, b) ==
    \/ a.major < b.major
    \/ a.major = b.major /\ a.minor < b.minor
    \/ a.major = b.major /\ a.minor = b.minor /\ a.patch < b.patch
\* the hits whose job-version parses
ParsedHits == {i \in 1..Len(hits) : attempt_parse(hits[i]) # PyNone}
\* C20: _SemVer comparison is the lexicographic order on (major, minor,
\* patch): exactly one of a < b, a == b, a > b holds, a <= b holds exactly
\* when a < b or a == b; and what get_latest_job_version picks from the hits
\* is a hit with the greatest version
C20_LexicographicOrder ==
    /\ compared # NoRecord =>
          /\ compared.lt = LexLess(compared.a, compared.b)
          /\ compared.gt = LexLess(compared.b, compared.a)
          /\ (compared.lt /\ ~compared.eq /\ ~compared.gt)
                \/ (~compared.lt /\ compared.eq /\ ~compared.gt)
                \/ (~compared.lt /\ ~compared.eq /\ compared.gt)
          /\ compared.le = (compared.lt \/ compared.eq)
    /\ (latest # NoOutcome /\ mozart_es_client # 0 /\ ParsedHits # {}) =>
          /\ latest.type = "return"
          /\ \E i \in ParsedHits :
                /\ latest.value = i
                /\ \A k \in ParsedHits :
                      ~LexLess(attempt_parse(hits[i]), attempt_parse(hits[k]))

====
